---- MODULE Spec2Model ----
(***************************************************************************)
(* A model of aws-spa-hosting-kit:                                         *)
(*   ConfigLoader.load / applyDefaults / validate   (src/unnamed/part_004) *)
(*   the CLI entry point                            (src/unnamed/part_005) *)
(*   PipelineConfigGenerator.generateBuildSpec      (src/unnamed/part_003) *)
(*   SpaHostingStack and its inline Lambda handlers (src/README.md)        *)
(*                                                                         *)
(* JavaScript values are modelled as follows.                              *)
(*   - a string is a TLA+ string; its characters are read with SubSeq;     *)
(*   - an object is a function whose DOMAIN is the set of keys it has; a   *)
(*     key that is not in the DOMAIN reads as undefined (a YAML null reads *)
(*     the same way everywhere in the modelled code, so it is not kept     *)
(*     apart);                                                             *)
(*   - an optional value (a variable that may not be assigned yet) is a    *)
(*     sequence of length 0 or 1.                                          *)
(***************************************************************************)
EXTENDS Integers, Sequences, FiniteSets, TLC

VARIABLES
    context,     \* the CDK context of the app: may hold the key "config"
    file,        \* what is stored at the configuration path
    pc,          \* position of the CLI process
    config,      \* const config     (optional)
    validation,  \* const validation (optional)
    thrown,      \* the Error caught by the CLI's catch block (optional)
    console,     \* lines written with console.error / console.warn
    exitCode,    \* the code given to process.exit (optional)
    stack,       \* the SpaHostingStack constructed (optional)
    synthed,     \* app.synth() was executed
    call,        \* a direct call of an exported function and its result (optional)
    deployed,    \* the stack CloudFormation has created in the account (optional)
    trigger,     \* the running or last invocation of PipelineTriggerFunction
    event,       \* the last pipeline state change put on the event bus (optional)
    matched,     \* the rules of the deployed stack the last event matched
    invalidation \* the running or last invocation of InvalidationFunction

\* what exists once the stack is deployed
cloud == <<deployed, trigger, event, matched, invalidation>>

vars == <<context, file, pc, config, validation, thrown, console, exitCode,
          stack, synthed, call, cloud>>

----------------------------------------------------------------------------
(* JavaScript helpers *)

None == <<>>
Some(x) == <<x>>

EmptyObj == [k \in {} |-> ""]

Has(o, k) == k \in DOMAIN o

\* o.k is truthy, for a string-valued key: undefined and "" are falsy
Truthy(o, k) == Has(o, k) /\ o[k] # ""

\* o.k used with optional chaining (o.k?.x) or spread (...o.k)
Sect(o, k) == IF Has(o, k) THEN o[k] ELSE EmptyObj

\* o.k || d
OrDefault(o, k, d) == IF Truthy(o, k) THEN o[k] ELSE d

\* { ...a, ...b }
Spread(a, b) ==
    [k \in (DOMAIN a) \cup (DOMAIN b) |-> IF k \in DOMAIN b THEN b[k] ELSE a[k]]

Char(s, i) == SubSeq(s, i, i)

AllIn(s, cls) == \A i \in 1..Len(s) : Char(s, i) \in cls

\* String.prototype.includes
Contains(s, sub) ==
    \E i \in 1..(Len(s) - Len(sub) + 1) : SubSeq(s, i, i + Len(sub) - 1) = sub

\* Array.prototype.includes
Includes(arr, x) == \E i \in 1..Len(arr) : arr[i] = x

\* Array.prototype.map(f) for the line prefix used by the CLI
RECURSIVE Prefixed(_, _)
Prefixed(p, arr) ==
    IF arr = <<>> THEN <<>> ELSE <<p \o Head(arr)>> \o Prefixed(p, Tail(arr))

Lower == {"a","b","c","d","e","f","g","h","i","j","k","l","m",
          "n","o","p","q","r","s","t","u","v","w","x","y","z"}
Upper == {"A","B","C","D","E","F","G","H","I","J","K","L","M",
          "N","O","P","Q","R","S","T","U","V","W","X","Y","Z"}
Digit == {"0","1","2","3","4","5","6","7","8","9"}

\* \w
WordChar == Lower \cup Upper \cup Digit \cup {"_"}

\* \s, as far as the characters of the modelled strings go
Whitespace == {" ", "\t", "\n", "\r", "\f"}

----------------------------------------------------------------------------
(* ConfigLoader.validate: the patterns *)

\* /^[a-zA-Z0-9-_]+$/
projectNamePattern(s) ==
    /\ Len(s) >= 1
    /\ AllIn(s, Lower \cup Upper \cup Digit \cup {"-", "_"})

GithubPrefix == "https://github.com/"

\* /^https:\/\/github\.com\/[\w-]+\/[\w-]+$/
githubUrlPattern(s) ==
    LET p == Len(GithubPrefix) IN
    /\ Len(s) > p
    /\ SubSeq(s, 1, p) = GithubPrefix
    /\ \E k \in (p + 2)..(Len(s) - 1) :
          /\ Char(s, k) = "/"
          /\ AllIn(SubSeq(s, p + 1, k - 1), WordChar \cup {"-"})
          /\ AllIn(SubSeq(s, k + 1, Len(s)), WordChar \cup {"-"})

NotSpaceNorAt(s) == \A i \in 1..Len(s) : Char(s, i) \notin Whitespace \cup {"@"}

\* /^[^\s@]+@[^\s@]+\.[^\s@]+$/
emailPattern(s) ==
    \E i, j \in 1..Len(s) :
        /\ 1 < i /\ i + 1 < j /\ j < Len(s)
        /\ Char(s, i) = "@"
        /\ Char(s, j) = "."
        /\ NotSpaceNorAt(SubSeq(s, 1, i - 1))
        /\ NotSpaceNorAt(SubSeq(s, i + 1, j - 1))
        /\ NotSpaceNorAt(SubSeq(s, j + 1, Len(s)))

validRegions ==
    << "us-east-1", "us-east-2", "us-west-1", "us-west-2",
       "af-south-1", "ap-east-1", "ap-south-1", "ap-south-2",
       "ap-northeast-1", "ap-northeast-2", "ap-northeast-3",
       "ap-southeast-1", "ap-southeast-2", "ap-southeast-3", "ap-southeast-4",
       "ca-central-1", "eu-central-1", "eu-central-2",
       "eu-west-1", "eu-west-2", "eu-west-3",
       "eu-south-1", "eu-south-2", "eu-north-1",
       "il-central-1", "me-south-1", "me-central-1",
       "sa-east-1" >>

----------------------------------------------------------------------------
(* ConfigLoader.validate: the messages *)

MsgMissingProjectName == "Missing required field: projectName"
MsgInvalidProjectName ==
    "Invalid projectName format. Use only alphanumeric characters, hyphens, and underscores."
MsgMissingGithub == "Missing required field: github"
MsgMissingRepositoryUrl == "Missing required field: github.repositoryUrl"
MsgInvalidRepositoryUrl ==
    "Invalid GitHub repository URL. Expected format: https://github.com/owner/repo"
MsgMissingAws == "Missing required field: aws"
MsgMissingRegion == "Missing required field: aws.region"
MsgInvalidRegion(region) ==
    "Invalid AWS region '" \o region \o
    "'. Must be a valid AWS region that supports CodePipeline, CodeBuild, and CodeStar Connections."
MsgCertificateRegion ==
    "ACM certificates for CloudFront must be created in us-east-1. Consider using us-east-1 region for custom domain setup."
MsgCertificateRequired ==
    "domain.certificateArn is required when domain.customDomain is specified"
MsgInvalidEmail(email) == "Invalid notification email format: '" \o email \o "'"

----------------------------------------------------------------------------
(* ConfigLoader.validate: one operator per block of the method, each giving  *)
(* the messages the block pushes, in order                                   *)

\* ProjectNameErrors with the project name optional: tested only when given
ProjectNameErrorsOptional(c) ==
    IF ~Truthy(c, "projectName") THEN <<>>
    ELSE IF ~projectNamePattern(c.projectName) THEN <<MsgInvalidProjectName>>
    ELSE <<>>

\* if (!config.projectName) ... else ...
ProjectNameErrors(c) ==
    IF ~Truthy(c, "projectName") THEN <<MsgMissingProjectName>>
    ELSE IF ~projectNamePattern(c.projectName) THEN <<MsgInvalidProjectName>>
    ELSE <<>>

\* GithubErrors with the format test left out
GithubErrorsPresenceOnly(c) ==
    IF ~Has(c, "github") THEN <<MsgMissingGithub>>
    ELSE IF ~Truthy(c.github, "repositoryUrl") THEN <<MsgMissingRepositoryUrl>>
    ELSE <<>>

\* GithubErrors with a pattern that is not anchored at its end
GithubErrorsPrefixOnly(c) ==
    IF ~Has(c, "github") THEN <<MsgMissingGithub>>
    ELSE IF ~Truthy(c.github, "repositoryUrl") THEN <<MsgMissingRepositoryUrl>>
    ELSE IF ~(/\ Len(c.github.repositoryUrl) > Len(GithubPrefix)
              /\ SubSeq(c.github.repositoryUrl, 1, Len(GithubPrefix)) = GithubPrefix)
      THEN <<MsgInvalidRepositoryUrl>>
    ELSE <<>>

\* if (!config.github) ... else ...
GithubErrors(c) ==
    IF ~Has(c, "github") THEN <<MsgMissingGithub>>
    ELSE IF ~Truthy(c.github, "repositoryUrl") THEN <<MsgMissingRepositoryUrl>>
    ELSE IF ~githubUrlPattern(c.github.repositoryUrl) THEN <<MsgInvalidRepositoryUrl>>
    ELSE <<>>

\* if (!config.aws) ... else ... : the errors
AwsErrors(c) ==
    IF ~Has(c, "aws") THEN <<MsgMissingAws>>
    ELSE IF ~Truthy(c.aws, "region") THEN <<MsgMissingRegion>>
    ELSE IF ~Includes(validRegions, c.aws.region) THEN <<MsgInvalidRegion(c.aws.region)>>
    ELSE <<>>

\* AwsWarnings with the comparison turned around
AwsWarningsInverted(c) ==
    IF /\ Has(c, "aws")
       /\ Truthy(c.aws, "region")
       /\ c.aws.region = "us-east-1"
       /\ Truthy(Sect(c, "domain"), "customDomain")
    THEN <<MsgCertificateRegion>>
    ELSE <<>>

\* AwsWarnings pushed only in the branch of a known region
AwsWarningsKnownRegionOnly(c) ==
    IF /\ Has(c, "aws")
       /\ Truthy(c.aws, "region")
       /\ Includes(validRegions, c.aws.region)
       /\ c.aws.region # "us-east-1"
       /\ Truthy(Sect(c, "domain"), "customDomain")
    THEN <<MsgCertificateRegion>>
    ELSE <<>>

\* if (!config.aws) ... else ... : the warning, pushed in the branch where
\* config.aws.region is truthy
AwsWarnings(c) ==
    IF /\ Has(c, "aws")
       /\ Truthy(c.aws, "region")
       /\ c.aws.region # "us-east-1"
       /\ Truthy(Sect(c, "domain"), "customDomain")
    THEN <<MsgCertificateRegion>>
    ELSE <<>>

\* DomainErrors asking for the certificate of every domain section
DomainErrorsAlways(c) ==
    IF Has(c, "domain") /\ ~Truthy(c.domain, "certificateArn")
    THEN <<MsgCertificateRequired>>
    ELSE <<>>

\* if (config.domain) ...
DomainErrors(c) ==
    IF /\ Has(c, "domain")
       /\ Truthy(c.domain, "customDomain")
       /\ ~Truthy(c.domain, "certificateArn")
    THEN <<MsgCertificateRequired>>
    ELSE <<>>

\* NotificationErrors testing the email of every notifications section,
\* an empty or missing one included
NotificationErrorsOnEmpty(c) ==
    IF /\ Has(c, "notifications")
       /\ ~emailPattern(OrDefault(c.notifications, "email", ""))
    THEN <<MsgInvalidEmail(OrDefault(c.notifications, "email", ""))>>
    ELSE <<>>

\* if (config.notifications?.email) ...
NotificationErrors(c) ==
    IF /\ Truthy(Sect(c, "notifications"), "email")
       /\ ~emailPattern(c.notifications.email)
    THEN <<MsgInvalidEmail(c.notifications.email)>>
    ELSE <<>>

\* validate reading config.github.repositoryUrl with no check of the section:
\* a TypeError is thrown for a configuration without one
validateUnguarded(c) ==
    IF ~Has(c, "github")
      THEN [threw |-> TRUE,
            message |-> "Cannot read properties of undefined (reading 'repositoryUrl')"]
      ELSE LET errors == ProjectNameErrors(c) \o GithubErrors(c) \o AwsErrors(c)
                           \o DomainErrors(c) \o NotificationErrors(c)
           IN  [valid |-> Len(errors) = 0, errors |-> errors, warnings |-> AwsWarnings(c)]

\* validate counting a warning against validity
validateWarningsCount(c) ==
    LET errors == ProjectNameErrors(c) \o GithubErrors(c) \o AwsErrors(c)
                    \o DomainErrors(c) \o NotificationErrors(c)
        warnings == AwsWarnings(c)
    IN  [valid |-> Len(errors) = 0 /\ Len(warnings) = 0,
         errors |-> errors, warnings |-> warnings]

\* validate returning at the first block that found something
validateFirstOnly(c) ==
    LET blocks == <<ProjectNameErrors(c), GithubErrors(c), AwsErrors(c),
                    DomainErrors(c), NotificationErrors(c)>>
        hit == {i \in 1..Len(blocks) : blocks[i] # <<>>}
        errors == IF hit = {} THEN <<>>
                  ELSE blocks[CHOOSE i \in hit : \A j \in hit : i <= j]
    IN  [valid |-> Len(errors) = 0, errors |-> errors, warnings |-> AwsWarnings(c)]

validate(c) ==
    LET errors == ProjectNameErrors(c) \o GithubErrors(c) \o AwsErrors(c)
                    \o DomainErrors(c) \o NotificationErrors(c)
        warnings == AwsWarnings(c)
    IN  [valid |-> Len(errors) = 0, errors |-> errors, warnings |-> warnings]

----------------------------------------------------------------------------
(* ConfigLoader.applyDefaults and ConfigLoader.load *)

\* a fallback address with the at-sign mistyped
DefaultEmailMistyped == "rusty.example.com"

DEFAULT_NOTIFICATION_EMAIL == "rusty@example.com"

\* applyDefaults with another install command as the default
applyDefaultsNpmInstall(c) ==
    Spread(c,
      [ github |-> Spread(Sect(c, "github"),
                          [branch |-> OrDefault(Sect(c, "github"), "branch", "main")]),
        notifications |->
          [email |-> OrDefault(Sect(c, "notifications"), "email",
                               DEFAULT_NOTIFICATION_EMAIL)],
        build |->
          [ outputDirectory |-> OrDefault(Sect(c, "build"), "outputDirectory", "dist"),
            buildCommand |-> OrDefault(Sect(c, "build"), "buildCommand", "npm run build"),
            installCommand |-> OrDefault(Sect(c, "build"), "installCommand", "npm install") ] ])

\* applyDefaults leaving a missing github section missing
applyDefaultsGithubIfPresent(c) ==
    Spread(c,
      Spread([k \in {"github"} \cap DOMAIN c |->
                Spread(c.github, [branch |-> OrDefault(c.github, "branch", "main")])],
      [ notifications |->
          [email |-> OrDefault(Sect(c, "notifications"), "email",
                               DEFAULT_NOTIFICATION_EMAIL)],
        build |->
          [ outputDirectory |-> OrDefault(Sect(c, "build"), "outputDirectory", "dist"),
            buildCommand |-> OrDefault(Sect(c, "build"), "buildCommand", "npm run build"),
            installCommand |-> OrDefault(Sect(c, "build"), "installCommand", "npm ci") ] ]))

\* applyDefaults building the github section from the branch alone
\* (config.github is not spread): a section is there only if the file has one
applyDefaultsBranchOnly(c) ==
    Spread(c,
      Spread([k \in {"github"} \cap DOMAIN c |->
                [branch |-> OrDefault(Sect(c, "github"), "branch", "main")]],
      [ notifications |->
          [email |-> OrDefault(Sect(c, "notifications"), "email",
                               DEFAULT_NOTIFICATION_EMAIL)],
        build |->
          [ outputDirectory |-> OrDefault(Sect(c, "build"), "outputDirectory", "dist"),
            buildCommand |-> OrDefault(Sect(c, "build"), "buildCommand", "npm run build"),
            installCommand |-> OrDefault(Sect(c, "build"), "installCommand", "npm ci") ] ]))

\* applyDefaults giving the fallback address only when the email is missing
\* (?? for ||): an empty email stays
applyDefaultsEmailNullish(c) ==
    Spread(c,
      [ github |-> Spread(Sect(c, "github"),
                          [branch |-> OrDefault(Sect(c, "github"), "branch", "main")]),
        notifications |->
          [email |-> IF Has(Sect(c, "notifications"), "email")
                       THEN c.notifications.email
                       ELSE DEFAULT_NOTIFICATION_EMAIL],
        build |->
          [ outputDirectory |-> OrDefault(Sect(c, "build"), "outputDirectory", "dist"),
            buildCommand |-> OrDefault(Sect(c, "build"), "buildCommand", "npm run build"),
            installCommand |-> OrDefault(Sect(c, "build"), "installCommand", "npm ci") ] ])

applyDefaults(c) ==
    Spread(c,
      [ github |-> Spread(Sect(c, "github"),
                          [branch |-> OrDefault(Sect(c, "github"), "branch", "main")]),
        notifications |->
          [email |-> OrDefault(Sect(c, "notifications"), "email",
                               DEFAULT_NOTIFICATION_EMAIL)],
        build |->
          [ outputDirectory |-> OrDefault(Sect(c, "build"), "outputDirectory", "dist"),
            buildCommand |-> OrDefault(Sect(c, "build"), "buildCommand", "npm run build"),
            installCommand |-> OrDefault(Sect(c, "build"), "installCommand", "npm ci") ] ])

\* What is stored at a path, by what fs and js-yaml make of it:
\*   "absent"    fs.existsSync is false
\*   "malformed" yaml.load throws a YAMLException
\*   "empty"     yaml.load returns a falsy value (an empty document)
\*   "document"  yaml.load returns the object f.doc
FileKinds == {"absent", "malformed", "empty", "document"}

\* the message of the YAMLException, which js-yaml chooses
YamlMessage == "bad indentation of a mapping entry"

Throw(msg) == [threw |-> TRUE, message |-> msg, value |-> EmptyObj]
Return(v) == [threw |-> FALSE, message |-> "", value |-> v]

\* load rethrowing the YAMLException as it is
loadUnwrapped(filePath, f) ==
    IF f.kind = "absent"
      THEN Throw("Configuration file not found: " \o filePath)
    ELSE IF f.kind = "malformed"
      THEN Throw(YamlMessage)
    ELSE IF f.kind = "empty"
      THEN Throw("Configuration file is empty: " \o filePath)
    ELSE Return(applyDefaults(f.doc))

load(filePath, f) ==
    IF f.kind = "absent"
      THEN Throw("Configuration file not found: " \o filePath)
    ELSE IF f.kind = "malformed"
      THEN Throw("YAML parsing error in " \o filePath \o ": " \o YamlMessage)
    ELSE IF f.kind = "empty"
      THEN Throw("Configuration file is empty: " \o filePath)
    ELSE Return(applyDefaults(f.doc))

----------------------------------------------------------------------------
(* PipelineConfigGenerator.generateBuildSpec *)

\* generateBuildSpec with the install phase made of its commands alone
generateBuildSpecCommandsOnly(c) ==
    LET installCommand == OrDefault(Sect(c, "build"), "installCommand", "npm ci")
        buildCommand == OrDefault(Sect(c, "build"), "buildCommand", "npm run build")
        outputDirectory == OrDefault(Sect(c, "build"), "outputDirectory", "dist")
    IN  [ version |-> "0.2",
          phases |->
            [ install |-> [commands |-> <<installCommand>>],
              build |-> [commands |-> <<buildCommand>>] ],
          artifacts |-> ("files" :> <<"**/*">>)
                          @@ ("base-directory" :> outputDirectory) ]

\* generateBuildSpec falling back only when a field is missing (?? for ||)
generateBuildSpecNullish(c) ==
    LET build == Sect(c, "build")
        installCommand == IF Has(build, "installCommand") THEN build.installCommand ELSE "npm ci"
        buildCommand == IF Has(build, "buildCommand") THEN build.buildCommand ELSE "npm run build"
        outputDirectory == IF Has(build, "outputDirectory") THEN build.outputDirectory ELSE "dist"
    IN  [ version |-> "0.2",
          phases |->
            [ install |-> ("runtime-versions" :> [nodejs |-> "20"])
                            @@ ("commands" :> <<installCommand>>),
              build |-> [commands |-> <<buildCommand>>] ],
          artifacts |-> ("files" :> <<"**/*">>)
                          @@ ("base-directory" :> outputDirectory) ]

generateBuildSpec(c) ==
    LET installCommand == OrDefault(Sect(c, "build"), "installCommand", "npm ci")
        buildCommand == OrDefault(Sect(c, "build"), "buildCommand", "npm run build")
        outputDirectory == OrDefault(Sect(c, "build"), "outputDirectory", "dist")
    IN  [ version |-> "0.2",
          phases |->
            [ install |-> ("runtime-versions" :> [nodejs |-> "20"])
                            @@ ("commands" :> <<installCommand>>),
              build |-> [commands |-> <<buildCommand>>] ],
          artifacts |-> ("files" :> <<"**/*">>)
                          @@ ("base-directory" :> outputDirectory) ]

----------------------------------------------------------------------------
(* SpaHostingStack: the constructor and the methods it calls, each giving   *)
(* the constructs it adds to the stack, keyed by construct id               *)

\* `${value}` in a template literal
Str(o, k) == IF Has(o, k) THEN o[k] ELSE "undefined"

NoSlash(s) == \A i \in 1..Len(s) : Char(s, i) # "/"

\* repositoryUrl.match(/github\.com\/([^\/]+)\/([^\/]+)$/): the groups of the
\* leftmost match, or nothing
urlMatch(s) ==
    LET host == "github.com/"
        h == Len(host)
        starts == {p \in 1..(Len(s) - h + 1) :
                     /\ SubSeq(s, p, p + h - 1) = host
                     /\ \E k \in (p + h + 1)..(Len(s) - 1) :
                           /\ Char(s, k) = "/"
                           /\ NoSlash(SubSeq(s, p + h, k - 1))
                           /\ NoSlash(SubSeq(s, k + 1, Len(s)))}
    IN  IF starts = {} THEN None
        ELSE LET p == CHOOSE q \in starts : \A r \in starts : q <= r
                 k == CHOOSE j \in (p + h + 1)..(Len(s) - 1) :
                        /\ Char(s, j) = "/"
                        /\ NoSlash(SubSeq(s, p + h, j - 1))
                        /\ NoSlash(SubSeq(s, j + 1, Len(s)))
             IN  Some([owner |-> SubSeq(s, p + h, k - 1),
                       repo |-> SubSeq(s, k + 1, Len(s))])

\* this.config.github.repositoryUrl.match(...), with the TypeError of a
\* missing github section or repositoryUrl
repositoryUrlMatch(c) ==
    IF ~Has(c, "github")
      THEN Throw("Cannot read properties of undefined (reading 'repositoryUrl')")
    ELSE IF ~Has(c.github, "repositoryUrl")
      THEN Throw("Cannot read properties of undefined (reading 'match')")
    ELSE IF urlMatch(c.github.repositoryUrl) = None
      THEN Throw("Invalid GitHub repository URL format")
    ELSE Return(urlMatch(c.github.repositoryUrl)[1])

pipelineName(c) == Str(c, "projectName") \o "-hosting-pipeline"

\* attribute tokens of constructs, resolved at deployment
ConnectionArn == "${GitHubConnection.ConnectionArn}"
TopicArn == "${NotificationTopic.TopicArn}"
DistributionId == "${SpaDistribution.Id}"

applyTags(c) ==
    Spread([ProjectName |-> Str(c, "projectName"), ManagedBy |-> "aws-spa-hosting-kit"],
           Sect(c, "tags"))

createS3Bucket(c) ==
    [ SpaBucket |-> [blockPublicAccess |-> "BLOCK_ALL", encryption |-> "S3_MANAGED"],
      S3BucketName |-> [output |-> "${SpaBucket.Name}"] ]

createCloudFrontDistribution(c) ==
    [ OAC |-> [name |-> "spa-hosting-oac"],
      SpaDistribution |-> [defaultRootObject |-> "index.html"],
      CloudFrontUrl |-> [output |-> "https://${SpaDistribution.DomainName}"] ]

createCodeStarConnection(c) ==
    LET m == repositoryUrlMatch(c) IN
    IF m.threw THEN m
    ELSE Return(
      [ GitHubConnection |->
          [connectionName |-> Str(c, "projectName") \o "-github",
           providerType |-> "GitHub"],
        CodeStarConnectionArn |-> [output |-> ConnectionArn] ])

createCodeBuildProject(c) ==
    [ SpaBuildProject |-> [buildSpec |-> generateBuildSpec(c)] ]

createSourceStage(c) ==
    LET m == repositoryUrlMatch(c) IN
    IF m.threw THEN m
    ELSE Return(
      [ stageName |-> "Source",
        actionName |-> "GitHub_Source",
        owner |-> m.value.owner,
        repo |-> m.value.repo,
        branch |-> OrDefault(c.github, "branch", "main"),
        connectionArn |-> ConnectionArn ])

createPipeline(c) ==
    LET source == createSourceStage(c) IN
    IF source.threw THEN source
    ELSE Return(
      [ SpaPipeline |->
          [pipelineName |-> pipelineName(c),
           stages |-> <<source.value,
                        [stageName |-> "Build", actionName |-> "Build_SPA"],
                        [stageName |-> "Deploy", actionName |-> "Deploy_to_S3"]>>],
        PipelineName |-> [output |-> pipelineName(c)] ])

\* the rule pattern shared by the three EventBridge rules
PipelineStateRule(c, state) ==
    [ source |-> "aws.codepipeline",
      detailType |-> "CodePipeline Pipeline Execution State Change",
      state |-> state,
      pipeline |-> pipelineName(c) ]

\* createNotificationTopic with the guard on the email left out
createNotificationTopicAlways(c) ==
    [ NotificationTopic |->
        [displayName |-> Str(c, "projectName") \o " Hosting Notifications",
         topicName |-> Str(c, "projectName") \o "-hosting-notifications",
         subscriptions |-> <<[protocol |-> "email",
                              endpoint |-> Str(Sect(c, "notifications"), "email")]>>],
      NotificationTopicArn |-> [output |-> TopicArn] ]

\* the constructs of the topic; none when no email is configured
createNotificationTopic(c) ==
    IF ~Truthy(Sect(c, "notifications"), "email") THEN EmptyObj
    ELSE
      [ NotificationTopic |->
          [displayName |-> Str(c, "projectName") \o " Hosting Notifications",
           topicName |-> Str(c, "projectName") \o "-hosting-notifications",
           subscriptions |-> <<[protocol |-> "email",
                                endpoint |-> c.notifications.email]>>],
        NotificationTopicArn |-> [output |-> TopicArn] ]

attachNotificationsToPipeline(c) ==
    [ PipelineSuccessNotification |->
        [rule |-> PipelineStateRule(c, "SUCCEEDED"), target |-> TopicArn],
      PipelineFailureNotification |->
        [rule |-> PipelineStateRule(c, "FAILED"), target |-> TopicArn] ]

sendStackDeploymentNotification(c) ==
    [ DeploymentNotificationFunction |->
        [environment |-> [TOPIC_ARN |-> TopicArn,
                          CLOUDFRONT_URL |-> "https://${SpaDistribution.DomainName}"]],
      DeploymentNotification |->
        [onCreate |-> "DeploymentNotificationFunction", invocationType |-> "Event"] ]

\* setupCloudFrontInvalidation with the rule on failed executions
setupCloudFrontInvalidationOnFailure(c, topic) ==
    [ InvalidationFunction |->
        [environment |->
           [DISTRIBUTION_ID |-> DistributionId,
            TOPIC_ARN |-> IF Has(topic, "NotificationTopic") THEN TopicArn ELSE ""],
         mayPublish |-> Has(topic, "NotificationTopic")],
      PipelineSuccessRule |->
        [rule |-> PipelineStateRule(c, "FAILED"), target |-> "InvalidationFunction"] ]

\* topic: the constructs createNotificationTopic gave (this.notificationTopic)
setupCloudFrontInvalidation(c, topic) ==
    [ InvalidationFunction |->
        [environment |->
           [DISTRIBUTION_ID |-> DistributionId,
            TOPIC_ARN |-> IF Has(topic, "NotificationTopic") THEN TopicArn ELSE ""],
         mayPublish |-> Has(topic, "NotificationTopic")],
      PipelineSuccessRule |->
        [rule |-> PipelineStateRule(c, "SUCCEEDED"), target |-> "InvalidationFunction"] ]

triggerInitialPipelineExecution(c) ==
    [ PipelineTriggerFunction |->
        [environment |-> [PIPELINE_NAME |-> pipelineName(c),
                          CONNECTION_ARN |-> ConnectionArn]],
      InitialPipelineExecution |->
        [onCreate |-> "PipelineTriggerFunction", invocationType |-> "RequestResponse"] ]

\* new SpaHostingStack(scope, id, config, props)
SpaHostingStack(id, c, props) ==
    LET connection == createCodeStarConnection(c)
        pipeline == createPipeline(c)
        topic == createNotificationTopic(c)
    IN  IF connection.threw THEN connection
        ELSE IF pipeline.threw THEN pipeline
        ELSE Return(
          [ id |-> id,
            config |-> c,
            env |-> props.env,
            tags |-> applyTags(c),
            constructs |->
              createS3Bucket(c)
                @@ createCloudFrontDistribution(c)
                @@ connection.value
                @@ createCodeBuildProject(c)
                @@ pipeline.value
                @@ topic
                @@ (IF Has(topic, "NotificationTopic")
                      THEN attachNotificationsToPipeline(c)
                             @@ sendStackDeploymentNotification(c)
                      ELSE EmptyObj)
                @@ setupCloudFrontInvalidation(c, topic)
                @@ triggerInitialPipelineExecution(c) ])

----------------------------------------------------------------------------
(* The documents and contexts the model draws its inputs from *)

Opt(k, vals) == {EmptyObj} \cup {[x \in {k} |-> v] : v \in vals}

ProjectNameDocs == Opt("projectName", {"", "My_App-2", "my app"})

GithubDocs ==
    Opt("github",
        { EmptyObj,
          [repositoryUrl |-> "https://github.com/acme/site"],
          [repositoryUrl |-> "https://github.com/my-org/my_spa", branch |-> "develop"],
          [repositoryUrl |-> "not-a-url"],
          [repositoryUrl |-> "https://github.com/acme/site/tree"],
          [repositoryUrl |-> "", branch |-> ""] })

AwsDocs ==
    Opt("aws",
        { EmptyObj,
          [region |-> "us-east-1"],
          [region |-> "us-west-2", accountId |-> "123456789012"],
          [region |-> "mars-1"],
          [region |-> ""] })

CertificateArn == "arn:aws:acm:us-east-1:123456789012:certificate/abc123"

DomainDocs ==
    Opt("domain",
        { EmptyObj,
          [customDomain |-> "www.example.com"],
          [customDomain |-> "www.example.com", certificateArn |-> CertificateArn],
          [customDomain |-> "www.example.com", certificateArn |-> ""],
          [customDomain |-> ""] })

NotificationsDocs ==
    Opt("notifications",
        { [email |-> "dev@acme.io"],
          [email |-> "dev at acme.io"],
          [email |-> ""] })

BuildDocs ==
    Opt("build",
        { EmptyObj,
          [outputDirectory |-> "build", buildCommand |-> "yarn build",
           installCommand |-> "yarn install"],
          [outputDirectory |-> "public", installCommand |-> ""] })

Docs ==
    { Spread(Spread(Spread(Spread(Spread(n, g), a), d), e), b) :
        n \in ProjectNameDocs, g \in GithubDocs, a \in AwsDocs,
        d \in DomainDocs, e \in NotificationsDocs, b \in BuildDocs }

Files ==
    {[kind |-> k, doc |-> EmptyObj] : k \in FileKinds \ {"document"}}
      \cup {[kind |-> "document", doc |-> d] : d \in Docs}

Contexts == {EmptyObj, [config |-> "config/staging.yml"]}

----------------------------------------------------------------------------
(* The CLI entry point *)

\* const configPath = app.node.tryGetContext('config') || 'config/config.yml'
configPath == OrDefault(context, "config", "config/config.yml")

\* a Lambda function that has not been invoked
Idle == [pc |-> "idle", sent |-> <<>>, result |-> ""]

Init ==
    /\ context \in Contexts
    /\ file \in Files
    /\ pc = "load"
    /\ config = None
    /\ validation = None
    /\ thrown = None
    /\ console = <<>>
    /\ exitCode = None
    /\ stack = None
    /\ synthed = FALSE
    /\ call = None
    /\ deployed = None
    /\ trigger = Idle
    /\ event = None
    /\ matched = {}
    /\ invalidation = Idle

\* const config = ConfigLoader.load(configPath)
Load ==
    /\ pc = "load" /\ call = None
    /\ LET r == load(configPath, file) IN
         IF r.threw
           THEN /\ thrown' = Some(r.message)
                /\ pc' = "catch"
                /\ UNCHANGED config
           ELSE /\ config' = Some(r.value)
                /\ pc' = "validate"
                /\ UNCHANGED thrown
    /\ UNCHANGED <<cloud, context, file, validation, console, exitCode, stack, synthed, call>>

\* const validation = ConfigLoader.validate(config)
Validate ==
    /\ pc = "validate"
    /\ validation' = Some(validate(config[1]))
    /\ pc' = IF validation'[1].valid THEN "warnings" ELSE "invalid"
    /\ UNCHANGED <<cloud, context, file, config, thrown, console, exitCode, stack, synthed, call>>

\* ReportInvalid with process.exit(1) left out: the script goes on
ReportInvalidNoExit ==
    /\ pc = "invalid"
    /\ console' = console \o <<"Configuration validation failed:">>
                          \o Prefixed("  - ", validation[1].errors)
    /\ pc' = "warnings"
    /\ UNCHANGED <<cloud, context, file, config, validation, thrown, exitCode, stack, synthed, call>>

\* if (!validation.valid) { console.error(...); process.exit(1) }
\* (the lines are kept without the pictograph that starts them)
ReportInvalid ==
    /\ pc = "invalid"
    /\ console' = console \o <<"Configuration validation failed:">>
                          \o Prefixed("  - ", validation[1].errors)
    /\ exitCode' = Some(1)
    /\ pc' = "exited"
    /\ UNCHANGED <<cloud, context, file, config, validation, thrown, stack, synthed, call>>

\* ReportWarnings treating a warning as fatal: the script exits on one
ReportWarningsFatal ==
    /\ pc = "warnings"
    /\ IF Len(validation[1].warnings) > 0
         THEN /\ console' = console \o <<"Configuration warnings:">>
                                    \o Prefixed("  - ", validation[1].warnings)
              /\ exitCode' = Some(1)
              /\ pc' = "exited"
         ELSE /\ pc' = "construct"
              /\ UNCHANGED <<console, exitCode>>
    /\ UNCHANGED <<cloud, context, file, config, validation, thrown, stack, synthed, call>>

\* if (validation.warnings.length > 0) { console.warn(...) }
ReportWarnings ==
    /\ pc = "warnings"
    /\ console' = IF Len(validation[1].warnings) > 0
                    THEN console \o <<"Configuration warnings:">>
                                 \o Prefixed("  - ", validation[1].warnings)
                    ELSE console
    /\ pc' = "construct"
    /\ UNCHANGED <<cloud, context, file, config, validation, thrown, exitCode, stack, synthed, call>>

\* new SpaHostingStack(app, 'SpaHostingStack', config, { env: { region: config.aws.region, ... } })
\* Reading config.aws.region throws a TypeError inside the try block when
\* config.aws is undefined. Of the stack's props the region is kept.
Construct ==
    /\ pc = "construct"
    /\ IF ~Has(config[1], "aws")
         THEN /\ thrown' = Some("Cannot read properties of undefined (reading 'region')")
              /\ pc' = "catch"
              /\ UNCHANGED stack
         ELSE LET r == SpaHostingStack("SpaHostingStack", config[1],
                                       [env |-> [k \in {"region"} \cap DOMAIN config[1].aws |->
                                                   config[1].aws[k]]])
              IN  IF r.threw
                    THEN /\ thrown' = Some(r.message)
                         /\ pc' = "catch"
                         /\ UNCHANGED stack
                    ELSE /\ stack' = Some(r.value)
                         /\ pc' = "synth"
                         /\ UNCHANGED thrown
    /\ UNCHANGED <<cloud, context, file, config, validation, console, exitCode, synthed, call>>

\* catch (error) { console.error(..., error.message); process.exit(1) }
Catch ==
    /\ pc = "catch"
    /\ console' = console \o <<"Error loading configuration: " \o thrown[1]>>
    /\ exitCode' = Some(1)
    /\ pc' = "exited"
    /\ UNCHANGED <<cloud, context, file, config, validation, thrown, stack, synthed, call>>

\* app.synth()
Synth ==
    /\ pc = "synth"
    /\ synthed' = TRUE
    /\ pc' = "done"
    /\ UNCHANGED <<cloud, context, file, config, validation, thrown, console, exitCode, stack, call>>

----------------------------------------------------------------------------
(* ConfigLoader.validate called on a configuration object as written, with  *)
(* no defaults applied (the method is public and static)                     *)

CallValidate ==
    /\ pc = "load" /\ call = None
    /\ file.kind = "document"
    /\ call' = Some([op |-> "validate", arg |-> file.doc, ret |-> validate(file.doc)])
    /\ UNCHANGED <<cloud, context, file, pc, config, validation, thrown, console, exitCode,
                   stack, synthed>>

\* PipelineConfigGenerator.generateBuildSpec called on a configuration
\* object as written
CallGenerateBuildSpec ==
    /\ pc = "load" /\ call = None
    /\ file.kind = "document"
    /\ call' = Some([op |-> "generateBuildSpec", arg |-> file.doc,
                     ret |-> generateBuildSpec(file.doc)])
    /\ UNCHANGED <<cloud, context, file, pc, config, validation, thrown, console, exitCode,
                   stack, synthed>>

\* a configuration object that has the fields HostingConfig requires
IsHostingConfig(c) ==
    /\ Has(c, "projectName")
    /\ Has(c, "github") /\ Has(c.github, "repositoryUrl")
    /\ Has(c, "aws") /\ Has(c.aws, "region")

\* new SpaHostingStack(app, id, config, props) called on a HostingConfig as
\* written, with no defaults applied and no validation (the class is exported)
CallSpaHostingStack ==
    /\ pc = "load" /\ call = None
    /\ file.kind = "document"
    /\ IsHostingConfig(file.doc)
    /\ call' = Some([op |-> "SpaHostingStack", arg |-> file.doc,
                     ret |-> SpaHostingStack("SpaHostingStack", file.doc,
                                             [env |-> [region |-> file.doc.aws.region]])])
    /\ UNCHANGED <<cloud, context, file, pc, config, validation, thrown, console, exitCode,
                   stack, synthed>>

\* a client that has deployed its stack has not returned
CallReturn ==
    /\ call # None
    /\ deployed = None
    /\ call' = None
    /\ UNCHANGED <<cloud, context, file, pc, config, validation, thrown, console, exitCode,
                   stack, synthed>>

Next ==
    \/ Load
    \/ Validate
    \/ ReportInvalid
    \/ ReportWarnings
    \/ Construct
    \/ Catch
    \/ Synth
    \/ CallValidate
    \/ CallGenerateBuildSpec
    \/ CallSpaHostingStack
    \/ CallReturn

Spec == Init /\ [][Next]_vars

\* the steps of the script itself: Node runs it to its end once started
CliStep ==
    \/ Load
    \/ Validate
    \/ ReportInvalid
    \/ ReportWarnings
    \/ Construct
    \/ Catch
    \/ Synth

\* the files whose project name is well formed and that leave the
\* notifications and build sections out: every branch of the script is still
\* taken, and warnings come with and without errors
NamedFiles ==
    {f \in Files :
       f.kind = "document" =>
         /\ Has(f.doc, "projectName") /\ projectNamePattern(f.doc.projectName)
         /\ ~Has(f.doc, "notifications")
         /\ ~Has(f.doc, "build")}

NamedInit ==
    /\ Init
    /\ file \in NamedFiles

FairSpec == NamedInit /\ [][Next]_vars /\ WF_vars(CliStep)

----------------------------------------------------------------------------
(* The deployed stack: CloudFormation creates what was synthesized and runs *)
(* the onCreate calls of the custom resources; CodePipeline puts the state  *)
(* changes of pipeline executions on the event bus, EventBridge invokes the *)
(* targets of the rules that match, and Lambda runs the inline handlers.    *)
(* A handler's step is one awaited call of the AWS SDK: it returns or it    *)
(* throws, as the service decides. An invocation keeps the commands it has  *)
(* sent, in order, and the handler's result.                                *)

\* the stacks that can be deployed: the one the script synthesized, and one
\* a client has constructed
Synthesized ==
    {stack[i] : i \in {j \in DOMAIN stack : synthed}}
      \cup {call[i].ret.value :
              i \in {j \in DOMAIN call : call[j].op = "SpaHostingStack" /\ ~call[j].ret.threw}}

\* process.env of a function of the deployed stack
Env(fn) == deployed[1].constructs[fn].environment

\* InitialPipelineExecution: onCreate invokes PipelineTriggerFunction
\* (the DeploymentNotification resource, which publishes one message to the
\* topic, is left to the stack's constructs)
Deploy ==
    /\ deployed = None
    /\ \E s \in Synthesized :
          /\ deployed' = Some(s)
          /\ trigger' = [pc |-> IF Has(s.constructs, "InitialPipelineExecution")
                                  THEN "GetConnection" ELSE "idle",
                         sent |-> <<>>, result |-> ""]
    /\ UNCHANGED <<context, file, pc, config, validation, thrown, console, exitCode,
                   stack, synthed, call, event, matched, invalidation>>

\* what GetConnection may answer: the status of the connection, or an error
ConnectionStatuses == {"PENDING", "AVAILABLE", "ERROR"}

\* the trigger's first step starting the pipeline whatever the status is
TriggerGetConnectionUnchecked ==
    /\ trigger.pc = "GetConnection"
    /\ \E answer \in ConnectionStatuses \cup {"throws"} :
          LET command == [command |-> "GetConnection",
                          ConnectionArn |-> Env("PipelineTriggerFunction").CONNECTION_ARN,
                          answer |-> answer]
          IN  IF answer = "throws"
                THEN trigger' = [pc |-> "returned", sent |-> Append(trigger.sent, command),
                                 result |-> "Error: GetConnection failed"]
                ELSE trigger' = [pc |-> "StartPipelineExecution",
                                 sent |-> Append(trigger.sent, command), result |-> ""]
    /\ UNCHANGED <<context, file, pc, config, validation, thrown, console, exitCode,
                   stack, synthed, call, deployed, event, matched, invalidation>>

\* await connectionsClient.send(new GetConnectionCommand(...)) and the test
\* of ConnectionStatus; an error is caught and reported with Status SUCCESS
TriggerGetConnection ==
    /\ trigger.pc = "GetConnection"
    /\ \E answer \in ConnectionStatuses \cup {"throws"} :
          LET command == [command |-> "GetConnection",
                          ConnectionArn |-> Env("PipelineTriggerFunction").CONNECTION_ARN,
                          answer |-> answer]
          IN  IF answer = "throws"
                THEN trigger' = [pc |-> "returned", sent |-> Append(trigger.sent, command),
                                 result |-> "Error: GetConnection failed"]
              ELSE IF answer # "AVAILABLE"
                THEN trigger' = [pc |-> "returned", sent |-> Append(trigger.sent, command),
                                 result |-> "Connection not authorized"]
                ELSE trigger' = [pc |-> "StartPipelineExecution",
                                 sent |-> Append(trigger.sent, command), result |-> ""]
    /\ UNCHANGED <<context, file, pc, config, validation, thrown, console, exitCode,
                   stack, synthed, call, deployed, event, matched, invalidation>>

\* await pipelineClient.send(new StartPipelineExecutionCommand(...))
TriggerStartPipelineExecution ==
    /\ trigger.pc = "StartPipelineExecution"
    /\ \E answer \in {"started", "throws"} :
          trigger' = [pc |-> "returned",
                      sent |-> Append(trigger.sent,
                                 [command |-> "StartPipelineExecution",
                                  name |-> Env("PipelineTriggerFunction").PIPELINE_NAME,
                                  answer |-> answer]),
                      result |-> IF answer = "started" THEN "Pipeline triggered"
                                 ELSE "Error: StartPipelineExecution failed"]
    /\ UNCHANGED <<context, file, pc, config, validation, thrown, console, exitCode,
                   stack, synthed, call, deployed, event, matched, invalidation>>

\* the states of a pipeline execution CodePipeline reports
ExecutionStates == {"STARTED", "SUCCEEDED", "FAILED"}

\* the pipelines of the account: this stack's own and one of another project
Pipelines == {deployed[1].constructs.SpaPipeline.pipelineName, "other-hosting-pipeline"}

\* the constructs of the deployed stack that are EventBridge rules
Rules == {id \in DOMAIN deployed[1].constructs : Has(deployed[1].constructs[id], "rule")}

\* the event pattern of a rule, matched against an event
Matches(rule, e) ==
    /\ rule.source = "aws.codepipeline"
    /\ rule.detailType = "CodePipeline Pipeline Execution State Change"
    /\ rule.state = e.state
    /\ rule.pipeline = e.pipeline

\* a pipeline execution of the account changes state: EventBridge matches
\* the event against the rules and invokes InvalidationFunction when a rule
\* that targets it matched. One invocation runs at a time.
PipelineStateChange ==
    /\ deployed # None
    /\ invalidation.pc \notin {"CreateInvalidation", "Publish"}
    /\ \E state \in ExecutionStates, pipeline \in Pipelines :
          LET e == [state |-> state, pipeline |-> pipeline]
              hit == {id \in Rules : Matches(deployed[1].constructs[id].rule, e)}
          IN  /\ event' = Some(e)
              /\ matched' = hit
              /\ invalidation' =
                   [pc |-> IF \E id \in hit :
                                deployed[1].constructs[id].target = "InvalidationFunction"
                             THEN "CreateInvalidation" ELSE "idle",
                    sent |-> <<>>, result |-> ""]
    /\ UNCHANGED <<context, file, pc, config, validation, thrown, console, exitCode,
                   stack, synthed, call, deployed, trigger>>

\* the invalidation handler going on to publish after a failed request
InvalidationCreateInvalidationUncaught ==
    /\ invalidation.pc = "CreateInvalidation"
    /\ \E answer \in {"created", "throws"} :
          invalidation' =
            [pc |-> IF Env("InvalidationFunction").TOPIC_ARN # "" THEN "Publish"
                    ELSE "returned",
             sent |-> Append(invalidation.sent,
                        [command |-> "CreateInvalidation",
                         DistributionId |-> Env("InvalidationFunction").DISTRIBUTION_ID,
                         Paths |-> <<"/*">>,
                         answer |-> answer]),
             result |-> IF Env("InvalidationFunction").TOPIC_ARN # "" THEN ""
                        ELSE "Invalidation created"]
    /\ UNCHANGED <<context, file, pc, config, validation, thrown, console, exitCode,
                   stack, synthed, call, deployed, trigger, event, matched>>

\* await cloudfront.send(new CreateInvalidationCommand(...)); an error is
\* logged and thrown again
InvalidationCreateInvalidation ==
    /\ invalidation.pc = "CreateInvalidation"
    /\ \E answer \in {"created", "throws"} :
          LET sent == Append(invalidation.sent,
                        [command |-> "CreateInvalidation",
                         DistributionId |-> Env("InvalidationFunction").DISTRIBUTION_ID,
                         Paths |-> <<"/*">>,
                         answer |-> answer])
          IN  IF answer = "throws"
                THEN invalidation' = [pc |-> "thrown", sent |-> sent,
                                      result |-> "CreateInvalidation failed"]
              ELSE IF Env("InvalidationFunction").TOPIC_ARN # ""
                THEN invalidation' = [pc |-> "Publish", sent |-> sent, result |-> ""]
                ELSE invalidation' = [pc |-> "returned", sent |-> sent,
                                      result |-> "Invalidation created"]
    /\ UNCHANGED <<context, file, pc, config, validation, thrown, console, exitCode,
                   stack, synthed, call, deployed, trigger, event, matched>>

\* if (topicArn) { await sns.send(new PublishCommand(...)) }
InvalidationPublish ==
    /\ invalidation.pc = "Publish"
    /\ \E answer \in {"published", "throws"} :
          invalidation' =
            [pc |-> IF answer = "published" THEN "returned" ELSE "thrown",
             sent |-> Append(invalidation.sent,
                        [command |-> "Publish",
                         TopicArn |-> Env("InvalidationFunction").TOPIC_ARN,
                         Subject |-> "CloudFront Cache Invalidated",
                         answer |-> answer]),
             result |-> IF answer = "published" THEN "Invalidation created"
                        ELSE "Publish failed"]
    /\ UNCHANGED <<context, file, pc, config, validation, thrown, console, exitCode,
                   stack, synthed, call, deployed, trigger, event, matched>>

\* the steps of the handlers: Lambda runs an invocation to its end, and a
\* call of the SDK returns or throws
HandlerStep ==
    \/ TriggerGetConnection
    \/ TriggerStartPipelineExecution
    \/ InvalidationCreateInvalidation
    \/ InvalidationPublish

CloudNext ==
    \/ Next
    \/ Deploy
    \/ PipelineStateChange
    \/ HandlerStep

CloudSpec ==
    NamedInit /\ [][CloudNext]_vars /\ WF_vars(CliStep) /\ WF_vars(HandlerStep)

----------------------------------------------------------------------------
(* The vocabulary of the properties *)

\* every call of validate the state shows, with its argument and its result:
\* the direct call, and the CLI's call on the loaded configuration
ValidateCalls ==
    {[arg |-> call[i].arg, ret |-> call[i].ret] :
        i \in {j \in DOMAIN call : call[j].op = "validate"}}
      \cup {[arg |-> config[1], ret |-> validation[i]] : i \in DOMAIN validation}

\* a string field is set: it is there and not empty
IsSet(c, section, key) == Truthy(Sect(c, section), key)

NameRuleMet(c) == Truthy(c, "projectName") /\ projectNamePattern(c.projectName)
UrlRuleMet(c) ==
    IsSet(c, "github", "repositoryUrl") /\ githubUrlPattern(c.github.repositoryUrl)
RegionRuleMet(c) ==
    IsSet(c, "aws", "region") /\ Includes(validRegions, c.aws.region)
CertificateRuleMet(c) ==
    IsSet(c, "domain", "customDomain") => IsSet(c, "domain", "certificateArn")
EmailRuleMet(c) ==
    IsSet(c, "notifications", "email") => emailPattern(c.notifications.email)

RulesViolated(c) ==
    {r \in {"name", "url", "region", "certificate", "email"} :
        \/ r = "name" /\ ~NameRuleMet(c)
        \/ r = "url" /\ ~UrlRuleMet(c)
        \/ r = "region" /\ ~RegionRuleMet(c)
        \/ r = "certificate" /\ ~CertificateRuleMet(c)
        \/ r = "email" /\ ~EmailRuleMet(c)}

\* the name of the field a violated rule is about: the section when the
\* whole section is missing, the key otherwise
FieldOf(c, r) ==
    CASE r = "name" -> "projectName"
      [] r = "url" -> IF Has(c, "github") THEN "repositoryUrl" ELSE "github"
      [] r = "region" -> IF Has(c, "aws") THEN "region" ELSE "aws"
      [] r = "certificate" -> "certificateArn"
      [] r = "email" -> "email"

NamesAnOffendingField(c, msg) ==
    \E r \in RulesViolated(c) : Contains(msg, FieldOf(c, r))

----------------------------------------------------------------------------
(* C1: a configuration that meets every rule is accepted: validate returns *)
(* valid = true and an empty error list.                                    *)
C1_ValidConfigAccepted ==
    \A v \in ValidateCalls :
        RulesViolated(v.arg) = {} => v.ret.valid /\ v.ret.errors = <<>>

C1_Witness ==
    \E v \in ValidateCalls :
        /\ RulesViolated(v.arg) = {}
        /\ IsSet(v.arg, "domain", "customDomain")
        /\ IsSet(v.arg, "notifications", "email")
        /\ v.ret.valid

(* C2 as stated: a configuration that violates a rule is rejected with at   *)
(* least one error message, and every message names the field it is about. *)
C2_EveryMessageNamesItsField ==
    \A v \in ValidateCalls :
        RulesViolated(v.arg) # {} =>
            /\ ~v.ret.valid
            /\ Len(v.ret.errors) >= 1
            /\ \A i \in 1..Len(v.ret.errors) :
                  NamesAnOffendingField(v.arg, v.ret.errors[i])

(* C2 as amended: a configuration that violates a rule is rejected with at  *)
(* least one error message, and every message names the field it is about, *)
(* except the message for an ill-formed repository URL, which speaks of the *)
(* "GitHub repository URL" and does not contain the name repositoryUrl.     *)
C2_Rejected ==
    \A v \in ValidateCalls :
        RulesViolated(v.arg) # {} =>
            /\ ~v.ret.valid
            /\ Len(v.ret.errors) >= 1
            /\ \A i \in 1..Len(v.ret.errors) :
                  \/ NamesAnOffendingField(v.arg, v.ret.errors[i])
                  \/ /\ v.ret.errors[i] =
                          "Invalid GitHub repository URL. Expected format: https://github.com/owner/repo"
                     /\ "url" \in RulesViolated(v.arg)

C2_Witness ==
    \E v \in ValidateCalls :
        /\ RulesViolated(v.arg) = {"url"}
        /\ Has(v.arg, "github")
        /\ Truthy(v.arg.github, "repositoryUrl")
        /\ ~v.ret.valid
        /\ Len(v.ret.errors) = 1

(* C3: the stack is constructed only after load returned and validate       *)
(* returned valid = true; every other run ends with exit code 1 and with    *)
(* neither the stack constructed nor app.synth() executed.                  *)
LoadedAndValid ==
    /\ config # None
    /\ validation # None
    /\ validation[1].valid

C3_NoStackWithoutValidConfig ==
    /\ stack # None => LoadedAndValid /\ thrown = None
    /\ synthed => stack # None
    /\ stack # None =>
          /\ file.kind = "document"
          /\ RulesViolated(applyDefaults(file.doc)) = {}
    /\ (pc \in {"done", "exited"} /\ ~LoadedAndValid) =>
          /\ exitCode = Some(1)
          /\ stack = None
          /\ ~synthed

C3_Witness ==
    /\ pc = "exited"
    /\ config # None
    /\ validation # None
    /\ ~validation[1].valid
    /\ exitCode = Some(1)
    /\ stack = None

(* C4: the rules are applied independently: the error list holds a message  *)
(* for every violated rule, not only for the first.                         *)
MessageOf(c, r) ==
    CASE r = "name" ->
           IF Truthy(c, "projectName") THEN MsgInvalidProjectName
                                       ELSE MsgMissingProjectName
      [] r = "url" ->
           IF ~Has(c, "github") THEN MsgMissingGithub
           ELSE IF ~Truthy(c.github, "repositoryUrl") THEN MsgMissingRepositoryUrl
           ELSE MsgInvalidRepositoryUrl
      [] r = "region" ->
           IF ~Has(c, "aws") THEN MsgMissingAws
           ELSE IF ~Truthy(c.aws, "region") THEN MsgMissingRegion
           ELSE MsgInvalidRegion(c.aws.region)
      [] r = "certificate" -> MsgCertificateRequired
      [] r = "email" -> MsgInvalidEmail(c.notifications.email)

C4_AllViolationsCollected ==
    \A v \in ValidateCalls :
        /\ \A r \in RulesViolated(v.arg) : Includes(v.ret.errors, MessageOf(v.arg, r))
        /\ Len(v.ret.errors) = Cardinality(RulesViolated(v.arg))

C4_Witness ==
    \E v \in ValidateCalls :
        /\ RulesViolated(v.arg) = {"name", "url", "region", "certificate", "email"}
        /\ Len(v.ret.errors) = 5

(* C5: for every optional field the document omits, load returns the       *)
(* documented default: branch "main", the fallback address, "npm ci",       *)
(* "npm run build" and "dist".                                              *)
Omits(d, section, key) == ~Has(Sect(d, section), key)

C5_DefaultsFilledIn ==
    config # None =>
        LET d == file.doc
            c == config[1]
        IN  /\ Omits(d, "github", "branch") => c.github.branch = "main"
            /\ Omits(d, "notifications", "email") =>
                  c.notifications.email = "rusty@example.com"
            /\ Omits(d, "build", "installCommand") => c.build.installCommand = "npm ci"
            /\ Omits(d, "build", "buildCommand") => c.build.buildCommand = "npm run build"
            /\ Omits(d, "build", "outputDirectory") => c.build.outputDirectory = "dist"
            /\ DOMAIN c.build = {"installCommand", "buildCommand", "outputDirectory"}
            /\ DOMAIN c.notifications = {"email"}

C5_Witness ==
    /\ config # None
    /\ Omits(file.doc, "github", "branch")
    /\ ~Has(file.doc, "notifications")
    /\ ~Has(file.doc, "build")
    /\ config[1].github.branch = "main"
    /\ config[1].build.installCommand = "npm ci"

(* C6: a document holding only valid required fields loads, and validate   *)
(* of the loaded configuration returns valid = true with no errors.         *)
OnlyValidRequired(d) ==
    /\ DOMAIN d = {"projectName", "github", "aws"}
    /\ DOMAIN d.github = {"repositoryUrl"}
    /\ DOMAIN d.aws = {"region"}
    /\ projectNamePattern(d.projectName)
    /\ githubUrlPattern(d.github.repositoryUrl)
    /\ Includes(validRegions, d.aws.region)

C6_RequiredOnlyIsValid ==
    (file.kind = "document" /\ OnlyValidRequired(file.doc)) =>
        /\ thrown = None
        /\ pc \notin {"catch", "invalid", "exited"}
        /\ pc # "load" => config # None
        /\ validation # None =>
              /\ validation[1].valid
              /\ validation[1].errors = <<>>

C6_Witness ==
    /\ file.kind = "document"
    /\ OnlyValidRequired(file.doc)
    /\ validation # None
    /\ validation[1].valid
    /\ config[1].notifications.email = "rusty@example.com"
    /\ pc = "done"

(* C7: load fails with the not-found error exactly when the document is     *)
(* absent, with the parse error exactly when it is malformed, with the      *)
(* empty-document error exactly when it parses to nothing; the three can be *)
(* told apart, none returns a configuration, and in every other case load   *)
(* returns a configuration with the defaults applied.                       *)
StartsWith(s, p) == Len(s) >= Len(p) /\ SubSeq(s, 1, Len(p)) = p

IsNotFound(m) == StartsWith(m, "Configuration file not found: ")
IsParseError(m) == StartsWith(m, "YAML parsing error in ")
IsEmptyDocument(m) == StartsWith(m, "Configuration file is empty: ")

LoadFailedWith(Is(_)) == validation = None /\ thrown # None /\ Is(thrown[1])

RequiresCertificate(msg) ==
    Contains(msg, "domain.certificateArn is required")

C8_CertificateRequiredWithDomain ==
    \A v \in ValidateCalls :
        /\ (IsSet(v.arg, "domain", "customDomain")
              /\ ~IsSet(v.arg, "domain", "certificateArn")) =>
              /\ ~v.ret.valid
              /\ \E i \in 1..Len(v.ret.errors) : RequiresCertificate(v.ret.errors[i])
        /\ ~IsSet(v.arg, "domain", "customDomain") =>
              \A i \in 1..Len(v.ret.errors) : ~Contains(v.ret.errors[i], "certificateArn")

C8_Witness ==
    \E v \in ValidateCalls :
        /\ IsSet(v.arg, "domain", "customDomain")
        /\ ~Has(v.arg.domain, "certificateArn")
        /\ RulesViolated(v.arg) = {"certificate"}
        /\ ~v.ret.valid

(* C9 as stated: valid required fields, region us-west-2 and customDomain   *)
(* set give valid = true and the warning recommending us-east-1.            *)
RecommendsCertificateRegion(msg) ==
    Contains(msg, "Consider using us-east-1 region")

RequiredFieldsValid(c) == NameRuleMet(c) /\ UrlRuleMet(c) /\ RegionRuleMet(c)

C9_WestWithDomainIsValid ==
    \A v \in ValidateCalls :
        (/\ RequiredFieldsValid(v.arg)
         /\ v.arg.aws.region = "us-west-2"
         /\ IsSet(v.arg, "domain", "customDomain")) =>
            /\ v.ret.valid
            /\ \E i \in 1..Len(v.ret.warnings) :
                  RecommendsCertificateRegion(v.ret.warnings[i])

(* C9 as amended: valid required fields, region us-west-2, customDomain set *)
(* together with certificateArn, and a notification email that is absent or *)
(* well-formed give valid = true and the warning recommending us-east-1.    *)
C9_WestWithCertifiedDomainIsValid ==
    \A v \in ValidateCalls :
        (/\ RequiredFieldsValid(v.arg)
         /\ v.arg.aws.region = "us-west-2"
         /\ IsSet(v.arg, "domain", "customDomain")
         /\ IsSet(v.arg, "domain", "certificateArn")
         /\ EmailRuleMet(v.arg)) =>
            /\ v.ret.valid
            /\ \E i \in 1..Len(v.ret.warnings) :
                  RecommendsCertificateRegion(v.ret.warnings[i])

C9_Witness ==
    \E v \in ValidateCalls :
        /\ RequiredFieldsValid(v.arg)
        /\ v.arg.aws.region = "us-west-2"
        /\ IsSet(v.arg, "domain", "customDomain")
        /\ IsSet(v.arg, "domain", "certificateArn")
        /\ v.ret.valid
        /\ Len(v.ret.warnings) = 1

(* C10 as stated: whenever the region is not us-east-1 (an invalid or       *)
(* absent region included) and customDomain is set, the certificate-region  *)
(* warning is emitted, as a warning and never as an error; with region      *)
(* us-east-1 or without customDomain it is not emitted.                     *)
HasRecommendation(list) ==
    \E i \in 1..Len(list) : RecommendsCertificateRegion(list[i])

RegionIsCertificateRegion(c) ==
    IsSet(c, "aws", "region") /\ c.aws.region = "us-east-1"

C10_WarningForAnyOtherRegion ==
    \A v \in ValidateCalls :
        /\ ~HasRecommendation(v.ret.errors)
        /\ (~RegionIsCertificateRegion(v.arg) /\ IsSet(v.arg, "domain", "customDomain"))
              => HasRecommendation(v.ret.warnings)
        /\ (RegionIsCertificateRegion(v.arg) \/ ~IsSet(v.arg, "domain", "customDomain"))
              => ~HasRecommendation(v.ret.warnings)

(* C10 as amended: whenever aws.region is given, is not us-east-1 (an       *)
(* invalid region included) and customDomain is set, the certificate-region *)
(* warning is emitted, as a warning and never as an error; with region      *)
(* us-east-1, with no region given, or without customDomain it is not       *)
(* emitted.                                                                 *)
C10_WarningForAnyOtherGivenRegion ==
    \A v \in ValidateCalls :
        /\ ~HasRecommendation(v.ret.errors)
        /\ (/\ IsSet(v.arg, "aws", "region")
            /\ v.arg.aws.region # "us-east-1"
            /\ IsSet(v.arg, "domain", "customDomain"))
              => HasRecommendation(v.ret.warnings)
        /\ (\/ ~IsSet(v.arg, "aws", "region")
            \/ v.arg.aws.region = "us-east-1"
            \/ ~IsSet(v.arg, "domain", "customDomain"))
              => ~HasRecommendation(v.ret.warnings)

C10_Witness ==
    \E v \in ValidateCalls :
        /\ IsSet(v.arg, "aws", "region")
        /\ ~Includes(validRegions, v.arg.aws.region)
        /\ IsSet(v.arg, "domain", "customDomain")
        /\ HasRecommendation(v.ret.warnings)
        /\ ~v.ret.valid


(* C11 as stated: a repositoryUrl that does not match the GitHub URL        *)
(* pattern gives valid = false and an error message that mentions           *)
(* "repositoryUrl".                                                         *)
HasUnmatchedUrl(c) ==
    /\ Has(c, "github")
    /\ Has(c.github, "repositoryUrl")
    /\ ~githubUrlPattern(c.github.repositoryUrl)

Mentions(list, word) == \E i \in 1..Len(list) : Contains(list[i], word)

C11_BadUrlMentionsRepositoryUrl ==
    \A v \in ValidateCalls :
        HasUnmatchedUrl(v.arg) =>
            /\ ~v.ret.valid
            /\ Mentions(v.ret.errors, "repositoryUrl")

(* C11 as amended: a repositoryUrl that does not match the GitHub URL       *)
(* pattern gives valid = false and an error message about the repository    *)
(* URL: for an empty string the message names github.repositoryUrl, for any *)
(* other string it reads "Invalid GitHub repository URL. Expected format:   *)
(* https://github.com/owner/repo" and no message mentions "repositoryUrl".  *)
C11_BadUrlRejected ==
    \A v \in ValidateCalls :
        HasUnmatchedUrl(v.arg) =>
            /\ ~v.ret.valid
            /\ IF v.arg.github.repositoryUrl = ""
                 THEN Mentions(v.ret.errors, "github.repositoryUrl")
                 ELSE /\ Mentions(v.ret.errors, "Invalid GitHub repository URL")
                      /\ ~Mentions(v.ret.errors, "repositoryUrl")

C11_Witness ==
    \E v \in ValidateCalls :
        /\ HasUnmatchedUrl(v.arg)
        /\ v.arg.github.repositoryUrl = "https://github.com/acme/site/tree"
        /\ ~v.ret.valid
        /\ Mentions(v.ret.errors, "Invalid GitHub repository URL")


----------------------------------------------------------------------------
(* C12: warnings are not fatal. In every run of the script where load       *)
(* succeeded and validate returned valid = true with a non-empty list of    *)
(* warnings, the warnings are written to the console, SpaHostingStack is    *)
(* constructed and app.synth() is reached.                                  *)

ValidWithWarnings ==
    /\ config # None
    /\ validation # None
    /\ validation[1].valid
    /\ Len(validation[1].warnings) > 0

WarningsReported ==
    /\ \E i \in DOMAIN console : console[i] = "Configuration warnings:"
    /\ \A w \in DOMAIN validation[1].warnings :
          \E i \in DOMAIN console : console[i] = "  - " \o validation[1].warnings[w]

SynthedWithWarnings ==
    /\ ValidWithWarnings
    /\ WarningsReported
    /\ stack # None
    /\ stack[1].config = config[1]
    /\ synthed
    /\ pc = "done"
    /\ exitCode = None

C12_WarningsAreNotFatal == ValidWithWarnings ~> SynthedWithWarnings

C12_Witness == SynthedWithWarnings


----------------------------------------------------------------------------
(* C13: the build specification follows the build section.                  *)

\* the calls of generateBuildSpec made so far, by a client and by the stack
\* the script constructs: the configuration given and the result
GenerateCalls ==
    {[arg |-> call[i].arg, ret |-> call[i].ret] :
        i \in {j \in DOMAIN call : call[j].op = "generateBuildSpec"}}
      \cup {[arg |-> stack[i].config, ret |-> stack[i].constructs.SpaBuildProject.buildSpec] :
              i \in DOMAIN stack}

\* the three values of the result the claim speaks of equal the three fields
FollowsBuildSection(c, spec) ==
    /\ Has(c, "build")
    /\ {"installCommand", "buildCommand", "outputDirectory"} \subseteq DOMAIN c.build
    /\ spec.phases.install.commands = <<c.build.installCommand>>
    /\ spec.phases.build.commands = <<c.build.buildCommand>>
    /\ spec.artifacts["base-directory"] = c.build.outputDirectory

\* the claim as stated: for every valid configuration the result carries
\* exactly config.build.installCommand, config.build.buildCommand and
\* config.build.outputDirectory
C13_ValidConfigFollowsBuildSection ==
    \A g \in GenerateCalls :
        validate(g.arg).valid => FollowsBuildSection(g.arg, g.ret)

\* C13 (amended): each of the three values is the field of config.build
\* when that field is set and the fixed default ('npm ci', 'npm run build',
\* 'dist') otherwise; for the configuration load returned, where all three
\* fields are set, the result carries exactly the three fields.
C13_BuildSectionOrDefault ==
    /\ \A g \in GenerateCalls :
          LET build == Sect(g.arg, "build") IN
          /\ g.ret.phases.install.commands =
               <<IF IsSet(g.arg, "build", "installCommand")
                   THEN build.installCommand ELSE "npm ci">>
          /\ g.ret.phases.build.commands =
               <<IF IsSet(g.arg, "build", "buildCommand")
                   THEN build.buildCommand ELSE "npm run build">>
          /\ g.ret.artifacts["base-directory"] =
               (IF IsSet(g.arg, "build", "outputDirectory")
                  THEN build.outputDirectory ELSE "dist")
    /\ stack # None =>
          FollowsBuildSection(config[1], stack[1].constructs.SpaBuildProject.buildSpec)

\* a client has given generateBuildSpec a valid configuration with a custom
\* output directory, an empty install command and no build command
C13_Witness ==
    \E g \in GenerateCalls :
        /\ call # None
        /\ validate(g.arg).valid
        /\ Has(g.arg, "build")
        /\ Has(g.arg.build, "installCommand") /\ g.arg.build.installCommand = ""
        /\ ~Has(g.arg.build, "buildCommand")
        /\ g.ret.phases.install.commands = <<"npm ci">>
        /\ g.ret.phases.build.commands = <<"npm run build">>
        /\ g.ret.artifacts["base-directory"] = "public"


----------------------------------------------------------------------------
(* C14: the shape of the build specification.                               *)

\* what the documented shape and the generated one have in common
CommonShape(spec) ==
    /\ DOMAIN spec = {"version", "phases", "artifacts"}
    /\ spec.version = "0.2"
    /\ DOMAIN spec.phases = {"install", "build"}
    /\ Len(spec.phases.install.commands) = 1
    /\ DOMAIN spec.phases.build = {"commands"}
    /\ Len(spec.phases.build.commands) = 1
    /\ DOMAIN spec.artifacts = {"files", "base-directory"}
    /\ spec.artifacts.files = <<"**/*">>

----------------------------------------------------------------------------
(* C15: generateBuildSpec is deterministic and free of side effects. An     *)
(* operator of the model is a function of its argument whatever its body,   *)
(* so no formula over the model can tell a deterministic generateBuildSpec  *)
(* from another: the claim has no formula here.                             *)

----------------------------------------------------------------------------
(* C16: validate is total and leaves its argument alone. For every          *)
(* configuration object, those without a github, aws, domain, notifications *)
(* or build section included, validate returns a result made of valid,      *)
(* errors and warnings and throws nothing, and the configuration given is   *)
(* the same after the call.                                                 *)

Sections == {"github", "aws", "domain", "notifications", "build"}

IsMessages(list) ==
    /\ DOMAIN list = 1..Len(list)
    /\ \A i \in DOMAIN list : Len(list[i]) > 0

IsValidationResult(r) ==
    /\ DOMAIN r = {"valid", "errors", "warnings"}
    /\ r.valid \in BOOLEAN
    /\ IsMessages(r.errors)
    /\ IsMessages(r.warnings)

C16_ValidateIsTotal ==
    /\ \A v \in ValidateCalls : IsValidationResult(v.ret)
    /\ \A i \in DOMAIN call : call[i].arg = file.doc
    /\ \A i \in DOMAIN validation : load(configPath, file) = Return(config[1])

\* validate has returned for a configuration object with none of the five
\* sections
C16_Witness ==
    \E v \in ValidateCalls :
        /\ call # None
        /\ DOMAIN v.arg \cap Sections = {}
        /\ IsValidationResult(v.ret)
        /\ ~v.ret.valid
        /\ Mentions(v.ret.errors, "github")
        /\ Mentions(v.ret.errors, "aws")


----------------------------------------------------------------------------
(* C17: the required fields of the configuration file.                      *)

\* a document holding github.repositoryUrl and aws.region, both with valid
\* values, and nothing else
OnlyUrlAndRegion(d) ==
    /\ DOMAIN d = {"github", "aws"}
    /\ DOMAIN d.github = {"repositoryUrl"}
    /\ DOMAIN d.aws = {"region"}
    /\ githubUrlPattern(d.github.repositoryUrl)
    /\ Includes(validRegions, d.aws.region)

----------------------------------------------------------------------------
(* C18: notifications are disabled by removing the email field. For every   *)
(* configuration file that omits notifications.email, the stack that load,  *)
(* validate and the constructor build has no SNS topic and no email         *)
(* subscription.                                                            *)

OmitsEmail(d) == ~Has(Sect(d, "notifications"), "email")

HasTopic(s) == Has(s.constructs, "NotificationTopic")

Subscriptions(s) ==
    IF HasTopic(s) THEN s.constructs.NotificationTopic.subscriptions ELSE <<>>

C18_NoTopicWithoutEmailInFile ==
    (file.kind = "document" /\ OmitsEmail(file.doc) /\ stack # None) =>
        /\ ~HasTopic(stack[1])
        /\ Subscriptions(stack[1]) = <<>>

\* what the script does with such a file: the stack has the topic, and the
\* fallback address is subscribed to it
C18_Witness ==
    /\ file.kind = "document"
    /\ OmitsEmail(file.doc)
    /\ stack # None
    /\ HasTopic(stack[1])
    /\ Subscriptions(stack[1]) =
         <<[protocol |-> "email", endpoint |-> DEFAULT_NOTIFICATION_EMAIL]>>


----------------------------------------------------------------------------
(* C19: an empty notification email is taken as absent. When the file has   *)
(* notifications.email present and empty, load substitutes the default      *)
(* maintainer address, and no loaded configuration carries an empty         *)
(* notifications.email.                                                     *)

EmptyEmail(d) == Has(Sect(d, "notifications"), "email") /\ d.notifications.email = ""

C19_EmptyEmailReplaced ==
    \A i \in DOMAIN config :
        /\ Has(config[i], "notifications")
        /\ Has(config[i].notifications, "email")
        /\ config[i].notifications.email # ""
        /\ EmptyEmail(file.doc) =>
              config[i].notifications.email = DEFAULT_NOTIFICATION_EMAIL

\* load has returned for a file whose email is the empty string
C19_Witness ==
    /\ file.kind = "document"
    /\ EmptyEmail(file.doc)
    /\ config # None
    /\ config[1].notifications.email = "rusty@example.com"


----------------------------------------------------------------------------
(* C20: the stack creates the SNS topic, its email subscription, the        *)
(* pipeline-success and pipeline-failure notification rules and the         *)
(* stack-deployment notification when config.notifications.email is set,    *)
(* and none of them when it is not.                                         *)

\* the stacks constructed so far, by the script and by a client
Stacks ==
    {stack[i] : i \in DOMAIN stack}
      \cup {call[i].ret.value :
              i \in {j \in DOMAIN call : call[j].op = "SpaHostingStack" /\ ~call[j].ret.threw}}

NotificationConstructs ==
    {"NotificationTopic", "NotificationTopicArn",
     "PipelineSuccessNotification", "PipelineFailureNotification",
     "DeploymentNotificationFunction", "DeploymentNotification"}

C20_NotificationsIffEmailSet ==
    \A s \in Stacks :
        IF IsSet(s.config, "notifications", "email")
          THEN /\ NotificationConstructs \subseteq DOMAIN s.constructs
               /\ Subscriptions(s) =
                    <<[protocol |-> "email", endpoint |-> s.config.notifications.email]>>
               /\ s.constructs.PipelineSuccessNotification.rule.state = "SUCCEEDED"
               /\ s.constructs.PipelineSuccessNotification.target = TopicArn
               /\ s.constructs.PipelineFailureNotification.rule.state = "FAILED"
               /\ s.constructs.PipelineFailureNotification.target = TopicArn
               /\ s.constructs.DeploymentNotificationFunction.environment.TOPIC_ARN = TopicArn
          ELSE /\ NotificationConstructs \cap DOMAIN s.constructs = {}
               /\ Subscriptions(s) = <<>>

\* a client has constructed a stack from a configuration without an email,
\* and the stack has none of the notification constructs
C20_Witness ==
    \E s \in Stacks :
        /\ call # None
        /\ ~IsSet(s.config, "notifications", "email")
        /\ Has(s.constructs, "SpaPipeline")
        /\ ~HasTopic(s)


----------------------------------------------------------------------------
(* C21: the first pipeline execution is started only over an authorized     *)
(* connection. In every run of the trigger handler StartPipelineExecution   *)
(* is sent only after GetConnection answered AVAILABLE; when the answer is  *)
(* another status, or GetConnection fails, none is sent.                    *)

IsCommand(inv, i, name) == inv.sent[i].command = name

C21_StartOnlyWhenAvailable ==
    /\ \A i \in DOMAIN trigger.sent :
          IsCommand(trigger, i, "StartPipelineExecution") =>
             /\ i = 2
             /\ IsCommand(trigger, 1, "GetConnection")
             /\ trigger.sent[1].answer = "AVAILABLE"
             /\ trigger.sent[i].name = deployed[1].constructs.SpaPipeline.pipelineName
    /\ (trigger.pc = "returned" /\ trigger.sent[1].answer # "AVAILABLE") =>
          /\ Len(trigger.sent) = 1
          /\ trigger.result # "Pipeline triggered"

\* the handler has returned over a connection that is still pending
C21_Witness ==
    /\ deployed # None
    /\ trigger.pc = "returned"
    /\ trigger.sent[1].answer = "PENDING"
    /\ trigger.result = "Connection not authorized"
    /\ Len(trigger.sent) = 1


----------------------------------------------------------------------------
(* C22: projectName is the namespace of the resource names. Every resource  *)
(* the stack names itself (the GitHub connection, the pipeline, the SNS     *)
(* topic, the CloudFront Origin Access Control) has a name derived from     *)
(* projectName, so two stacks built from configurations that differ in      *)
(* projectName share no resource name.                                      *)

\* the names the stack gives to its resources
ResourceNames(s) ==
    {s.constructs.GitHubConnection.connectionName,
     s.constructs.SpaPipeline.pipelineName,
     s.constructs.OAC.name}
      \cup (IF HasTopic(s) THEN {s.constructs.NotificationTopic.topicName} ELSE {})

OtherProjectNames(s) == {"My_App-2", "other-app"} \ {Str(s.config, "projectName")}

\* the stack of the same configuration under another project name
Renamed(s, name) ==
    SpaHostingStack(s.id, Spread(s.config, [projectName |-> name]), [env |-> s.env]).value

C22_NamesAreNamespaced ==
    \A s \in Stacks :
        /\ \A name \in ResourceNames(s) : Contains(name, Str(s.config, "projectName"))
        /\ \A other \in OtherProjectNames(s) :
              ResourceNames(s) \cap ResourceNames(Renamed(s, other)) = {}

\* the script has built a stack whose Origin Access Control has the name the
\* stack of any other project has
C22_Witness ==
    /\ stack # None
    /\ \A other \in OtherProjectNames(stack[1]) :
          ResourceNames(stack[1]) \cap ResourceNames(Renamed(stack[1], other))
            = {"spa-hosting-oac"}


----------------------------------------------------------------------------
(* C23: the stack name the script uses is derived from projectName, as      *)
(* {projectName}-HostingStack, so configurations with different project     *)
(* names give different stack names.                                        *)

C23_StackNameFromProjectName ==
    \A i \in DOMAIN stack :
        /\ stack[i].id = config[1].projectName \o "-HostingStack"
        /\ \A other \in OtherProjectNames(stack[i]) :
              stack[i].id # other \o "-HostingStack"

\* the script has constructed the stack of project My_App-2 under the fixed
\* name
C23_Witness ==
    /\ stack # None
    /\ config[1].projectName = "My_App-2"
    /\ stack[1].id = "SpaHostingStack"


----------------------------------------------------------------------------
(* C24: the cache is invalidated after every successful deployment. The     *)
(* invalidation function is invoked on, and only on, a state change to      *)
(* SUCCEEDED of an execution of this stack's own pipeline; each invocation  *)
(* requests one invalidation of the path /* on this stack's distribution;   *)
(* a FAILED execution invokes nothing.                                      *)

OwnSuccess ==
    /\ deployed # None
    /\ event = Some([state |-> "SUCCEEDED",
                     pipeline |-> deployed[1].constructs.SpaPipeline.pipelineName])

Invoked == invalidation.pc # "idle"

InvalidationRequests ==
    {i \in DOMAIN invalidation.sent : IsCommand(invalidation, i, "CreateInvalidation")}

RequestedOnce ==
    /\ invalidation.pc \in {"Publish", "returned", "thrown"}
    /\ InvalidationRequests = {1}
    /\ invalidation.sent[1].DistributionId = DistributionId
    /\ invalidation.sent[1].Paths = <<"/*">>

InvokedOnOwnSuccessOnly ==
    /\ Invoked <=> OwnSuccess
    /\ Invoked => (invalidation.pc = "CreateInvalidation" /\ invalidation.sent = <<>>)
                    \/ RequestedOnce
    /\ ~Invoked => InvalidationRequests = {}

C24_InvalidationFollowsSuccess ==
    /\ []InvokedOnOwnSuccessOnly
    /\ OwnSuccess ~> RequestedOnce

\* an execution of the stack's pipeline has succeeded and the function has
\* requested the invalidation and returned
C24_Witness ==
    /\ OwnSuccess
    /\ "PipelineSuccessRule" \in matched
    /\ invalidation.pc = "returned"
    /\ RequestedOnce
    /\ invalidation.sent[1].answer = "created"


----------------------------------------------------------------------------
(* C25: the cache-invalidated message follows the invalidation. The         *)
(* function's TOPIC_ARN is not empty exactly when the stack has the topic,  *)
(* that is when an email is configured; the message is published after, and *)
(* only after, the invalidation request succeeded; when the request fails   *)
(* nothing is published and the error is thrown again.                      *)

Publications ==
    {i \in DOMAIN invalidation.sent : IsCommand(invalidation, i, "Publish")}

PublishedAfterInvalidationOnly ==
    deployed # None =>
        /\ Env("InvalidationFunction").TOPIC_ARN # "" <=> HasTopic(deployed[1])
        /\ HasTopic(deployed[1]) <=> IsSet(deployed[1].config, "notifications", "email")
        /\ \A i \in Publications :
              /\ i = 2
              /\ IsCommand(invalidation, 1, "CreateInvalidation")
              /\ invalidation.sent[1].answer = "created"
              /\ invalidation.sent[i].TopicArn = TopicArn
              /\ HasTopic(deployed[1])
        /\ (Invoked /\ invalidation.sent # <<>> /\ invalidation.sent[1].answer = "throws") =>
              /\ invalidation.pc = "thrown"
              /\ Publications = {}
        /\ invalidation.pc = "returned" =>
              (Publications # {} <=> HasTopic(deployed[1]))

AwaitingPublish ==
    /\ deployed # None
    /\ HasTopic(deployed[1])
    /\ Invoked
    /\ invalidation.sent # <<>>
    /\ invalidation.sent[1].answer = "created"

----------------------------------------------------------------------------
(* C26: in every result of validate, valid is true exactly when the list of *)
(* errors is empty, whatever the list of warnings holds.                    *)

C26_ValidIffNoErrors ==
    \A v \in ValidateCalls :
        /\ v.ret.valid <=> v.ret.errors = <<>>
        /\ (v.ret.errors = <<>> /\ v.ret.warnings # <<>>) => v.ret.valid

\* validate has returned a valid result that carries a warning, for a
\* client and for the script
C26_Witness ==
    /\ validation # None
    /\ \A v \in ValidateCalls :
          /\ v.ret.valid
          /\ v.ret.errors = <<>>
          /\ v.ret.warnings = <<MsgCertificateRegion>>


----------------------------------------------------------------------------
(* C27: what validate accepts, the stack can read. For every configuration  *)
(* validate accepts, the extraction of owner and repository from            *)
(* github.repositoryUrl succeeds, so the stack never throws 'Invalid GitHub *)
(* repository URL format' after a passed validation, and the source action  *)
(* gets exactly the two path segments of the URL.                           *)

\* the constructor calls made so far: the configuration given and the result
ConstructorCalls ==
    {[arg |-> call[i].arg, ret |-> call[i].ret] :
        i \in {j \in DOMAIN call : call[j].op = "SpaHostingStack"}}
      \cup {[arg |-> config[1], ret |-> Return(stack[i])] : i \in DOMAIN stack}
      \cup {[arg |-> config[1], ret |-> Throw(thrown[i])] :
              i \in {j \in DOMAIN thrown : validation # None}}

SourceAction(s) == s.constructs.SpaPipeline.stages[1]

IsSegment(s) == s # "" /\ NoSlash(s)

C27_AcceptedUrlIsExtracted ==
    \A k \in ConstructorCalls :
        validate(k.arg).valid =>
            /\ ~k.ret.threw
            /\ k.ret.message # "Invalid GitHub repository URL format"
            /\ LET source == SourceAction(k.ret.value) IN
                 /\ IsSegment(source.owner)
                 /\ IsSegment(source.repo)
                 /\ k.arg.github.repositoryUrl =
                      "https://github.com/" \o source.owner \o "/" \o source.repo

\* the script has validated a configuration and built the stack, whose
\* source action reads acme/site
C27_Witness ==
    /\ validation # None
    /\ validation[1].valid
    /\ stack # None
    /\ config[1].github.repositoryUrl = "https://github.com/acme/site"
    /\ SourceAction(stack[1]).owner = "acme"
    /\ SourceAction(stack[1]).repo = "site"


----------------------------------------------------------------------------
(* C28: the defaults of the loader and of the generator agree. For every    *)
(* configuration c, generateBuildSpec of applyDefaults(c) equals            *)
(* generateBuildSpec of c; without a build section both give the default    *)
(* build specification (npm ci, npm run build, dist).                       *)

IsDefaultBuildSpec(spec) ==
    /\ spec.phases.install.commands = <<"npm ci">>
    /\ spec.phases.build.commands = <<"npm run build">>
    /\ spec.artifacts["base-directory"] = "dist"

C28_LoaderAndGeneratorAgree ==
    /\ \A g \in GenerateCalls :
          /\ g.ret = generateBuildSpec(applyDefaults(g.arg))
          /\ ~Has(g.arg, "build") => IsDefaultBuildSpec(g.ret)
    /\ \A i \in DOMAIN stack :
          /\ stack[i].constructs.SpaBuildProject.buildSpec = generateBuildSpec(file.doc)
          /\ ~Has(file.doc, "build") =>
                IsDefaultBuildSpec(stack[i].constructs.SpaBuildProject.buildSpec)

\* the script has built a stack from a file without a build section, the
\* build specification being generated from the loaded configuration
C28_Witness ==
    /\ stack # None
    /\ ~Has(file.doc, "build")
    /\ config[1].build.installCommand = "npm ci"
    /\ IsDefaultBuildSpec(stack[1].constructs.SpaBuildProject.buildSpec)


----------------------------------------------------------------------------
(* C29: applyDefaults changes only what is absent or empty. For every       *)
(* document, load leaves projectName, github.repositoryUrl, aws and domain  *)
(* as written, and keeps every non-empty value the document gives for       *)
(* github.branch, notifications.email, build.installCommand,                *)
(* build.buildCommand and build.outputDirectory.                            *)

\* the value at a key, absent included
At(o, k) == IF Has(o, k) THEN Some(o[k]) ELSE None

Defaulted ==
    {<<"github", "branch">>, <<"notifications", "email">>,
     <<"build", "installCommand">>, <<"build", "buildCommand">>,
     <<"build", "outputDirectory">>}

C29_OnlyAbsentOrEmptyChanged ==
    \A i \in DOMAIN config :
        /\ \A k \in {"projectName", "aws", "domain"} : At(config[i], k) = At(file.doc, k)
        /\ At(Sect(config[i], "github"), "repositoryUrl")
             = At(Sect(file.doc, "github"), "repositoryUrl")
        /\ \A f \in Defaulted :
              IsSet(file.doc, f[1], f[2]) =>
                 At(Sect(config[i], f[1]), f[2]) = Some(file.doc[f[1]][f[2]])

\* load has returned for a document that gives a branch, an address, a
\* certified domain and its build commands
C29_Witness ==
    /\ config # None
    /\ IsSet(file.doc, "github", "branch")
    /\ IsSet(file.doc, "notifications", "email")
    /\ IsSet(file.doc, "build", "buildCommand")
    /\ Has(file.doc, "domain")
    /\ config[1].github.branch = "develop"
    /\ config[1].build.buildCommand = "yarn build"
    /\ config[1].domain = file.doc.domain


----------------------------------------------------------------------------
(* C30: load masks a missing github section. For every document without    *)
(* the github section, load returns a configuration whose github section    *)
(* holds the branch "main" and nothing else, so validate of a loaded        *)
(* configuration reports 'Missing required field: github.repositoryUrl' and *)
(* never 'Missing required field: github'; a missing aws section is still   *)
(* reported as 'Missing required field: aws'; in both cases valid = false.  *)

C30_MissingGithubIsMasked ==
    /\ \A i \in DOMAIN config :
          ~Has(file.doc, "github") => At(config[i], "github") = Some([branch |-> "main"])
    /\ \A i \in DOMAIN validation :
          /\ ~Includes(validation[i].errors, MsgMissingGithub)
          /\ ~Has(file.doc, "github") =>
                /\ Includes(validation[i].errors, MsgMissingRepositoryUrl)
                /\ ~validation[i].valid
          /\ ~Has(file.doc, "aws") =>
                /\ Includes(validation[i].errors, MsgMissingAws)
                /\ ~validation[i].valid

\* the script has reported both messages for a named document without the
\* github and aws sections, and exited
C30_Witness ==
    /\ file.kind = "document"
    /\ ~Has(file.doc, "github")
    /\ ~Has(file.doc, "aws")
    /\ validation # None
    /\ validation[1].errors =
         <<"Missing required field: github.repositoryUrl", "Missing required field: aws">>
    /\ pc = "exited"

====
